---- MODULE Spec2Model ----
(***************************************************************************)
(* Model of the craes crate: the ECB, CBC and CTR modes of operation over  *)
(* a 128-bit block cipher, the PKCS#7 pad/unpad functions and the shared   *)
(* xor primitive.  Byte buffers are sequences of naturals in 0..255, a     *)
(* u64 is four 16-bit words (least significant word first) so that the     *)
(* full 64-bit width, its wrap-around and its byte serialisations are      *)
(* kept.  Every library call is one action of a caller that applies it to  *)
(* the buffer it holds.                                                    *)
(***************************************************************************)
EXTENDS Integers, Sequences, FiniteSets, TLC

VARIABLES hist, orig, prev, data, kept, err, key, iv, nonce, mode, count,
          count_copy, count0, overflow_checks, pending, chunks, aes_calls

vars == <<hist, orig, prev, data, kept, err, key, iv, nonce, mode, count,
          count_copy, count0, overflow_checks, pending, chunks, aes_calls>>

(***************************************************************************)
(* Bounds of the model                                                     *)
(***************************************************************************)
\* longest buffer handed to pad / unpad
MaxPadLen == 33
\* longest message handed to the ECB and CBC calls
MaxMsgLen == 49
\* number of message contents tried beside the all-zero message
MaxSeed == 2
\* longest text handed to the CTR calls
MaxCtrLen == 33
\* longest run of trailing bytes that is varied in a pad / unpad buffer
MaxTail == 17
\* largest byte value tried in the trailing run of a pad / unpad buffer
MaxTailByte == 17

(***************************************************************************)
(* Constants of the program                                                *)
(***************************************************************************)
BLOCK_LEN == 16
KEY_LEN_128 == 16
IV_LEN == 16
NONCE_LEN == 8
COUNT_LEN == 8

(***************************************************************************)
(* Results: Ok(value) and Err(kind)                                        *)
(***************************************************************************)
Ok(v) == [ok |-> TRUE, val |-> v, err |-> "none"]
Err(e) == [ok |-> FALSE, val |-> <<>>, err |-> e]

(***************************************************************************)
(* Slices and array literals                                               *)
(***************************************************************************)
\* s[from..to] with 0-based, half-open bounds as in Rust
Slice(s, from, to) == [i \in 1..(to - from) |-> s[from + i]]
\* [v; n]
Fill(v, n) == [i \in 1..n |-> v]

(***************************************************************************)
(* u8 ^ u8                                                                 *)
(***************************************************************************)
RECURSIVE XorByte(_, _)
XorByte(a, b) ==
    IF a = 0 THEN b
    ELSE IF b = 0 THEN a
    ELSE ((a + b) % 2) + 2 * XorByte(a \div 2, b \div 2)

\* lib.rs xor: fails on operands of different length
xor(left, right) ==
    IF Len(left) # Len(right)
    THEN Err("InvalidLength")
    ELSE Ok([i \in 1..Len(left) |-> XorByte(left[i], right[i])])

(***************************************************************************)
(* PKCS#7                                                                  *)
(***************************************************************************)
\* faulty variant: appends r bytes of value r instead of 16 - r bytes of 16 - r
pad_wrong_count(buf) ==
    LET r == Len(buf) % BLOCK_LEN
    IN  IF r = 0 THEN buf ELSE buf \o Fill(r, r)

\* faulty variant: an aligned buffer gets a full block of padding, as in
\* canonical PKCS#7
pad_full_block(buf) ==
    LET r == Len(buf) % BLOCK_LEN
    IN  buf \o Fill(BLOCK_LEN - r, BLOCK_LEN - r)

pad(buf) ==
    LET r == Len(buf) % BLOCK_LEN
    IN  IF r = 0 THEN buf
        ELSE buf \o Fill(BLOCK_LEN - r, BLOCK_LEN - r)

\* faulty variant: the filter also drops the byte value 16
NotPadByte16(b) == b \notin 1..16

\* the filter of the final else branch: keeps the bytes that are not 1..15
NotPadByte(b) == b \notin 1..15

\* the else-if chain of unpad for padded_block[skip..] == [16 - skip; 16 - skip],
\* skip = 1, 2, .., 15, and its final else branch
RECURSIVE unpad_chain(_, _, _)
unpad_chain(buf, padded_block, skip) ==
    LET buf_len == Len(buf)
    IN  IF skip < BLOCK_LEN
        THEN IF Slice(padded_block, skip, BLOCK_LEN)
                    = Fill(BLOCK_LEN - skip, BLOCK_LEN - skip)
             THEN Ok(Slice(buf, 0, buf_len - BLOCK_LEN + skip))
             ELSE unpad_chain(buf, padded_block, skip + 1)
        ELSE LET test_pad == SelectSeq(padded_block, NotPadByte)
             IN  IF test_pad = padded_block
                 THEN Ok(buf)
                 ELSE Err("InvalidPadding")

\* faulty variant: keeps one byte too many of the trailing block
unpad_off_by_one(buf) ==
    LET buf_len == Len(buf)
        padded_block == Slice(buf, buf_len - BLOCK_LEN, buf_len)
        r == unpad_chain(buf, padded_block, 1)
    IN  IF buf_len < BLOCK_LEN \/ buf_len % BLOCK_LEN # 0
        THEN Err("InvalidLength")
        ELSE IF padded_block = Fill(16, 16) THEN Ok(<<>>)
        ELSE IF r.ok /\ Len(r.val) < buf_len
             THEN Ok(Slice(buf, 0, Len(r.val) + 1))
             ELSE r

\* faulty variant: the fallback accepts every trailing block as "never padded"
unpad_lenient(buf) ==
    LET buf_len == Len(buf)
        padded_block == Slice(buf, buf_len - BLOCK_LEN, buf_len)
        r == unpad_chain(buf, padded_block, 1)
    IN  IF buf_len < BLOCK_LEN \/ buf_len % BLOCK_LEN # 0
        THEN Err("InvalidLength")
        ELSE IF padded_block = Fill(16, 16) THEN Ok(<<>>)
        ELSE IF r.ok THEN r ELSE Ok(buf)

unpad(buf) ==
    LET buf_len == Len(buf)
        padded_block == Slice(buf, buf_len - BLOCK_LEN, buf_len)
    IN  IF buf_len < BLOCK_LEN \/ buf_len % BLOCK_LEN # 0
        THEN Err("InvalidLength")
        ELSE IF padded_block = Fill(16, 16)
             THEN Ok(<<>>)
             ELSE unpad_chain(buf, padded_block, 1)

(***************************************************************************)
(* The block cipher (crate module aes): a key-dependent bijection on       *)
(* 16-byte blocks with aes_inv_128(aes_128(b, k), k) = b.  Each byte is    *)
(* taken from the next position, multiplied by 5 and shifted by the key    *)
(* byte and the position, modulo 256 (5 * 205 = 1 modulo 256).             *)
(***************************************************************************)
aes_128(block, k) ==
    [i \in 1..BLOCK_LEN |->
        (5 * block[(i % BLOCK_LEN) + 1] + k[i] + i) % 256]

aes_inv_128(block, k) ==
    [j \in 1..BLOCK_LEN |->
        LET i == ((j + BLOCK_LEN - 2) % BLOCK_LEN) + 1
        IN  (205 * ((block[i] + 512 - k[i] - i) % 256)) % 256]

\* a call's result together with the number of block cipher invocations
Done(r, calls) == [ok |-> r.ok, val |-> r.val, err |-> r.err, calls |-> calls]

\* the i-th (0-based) 16-byte chunk of chunks_exact
Chunk(buf, i) == Slice(buf, BLOCK_LEN * i, BLOCK_LEN * (i + 1))

(***************************************************************************)
(* ECB                                                                     *)
(***************************************************************************)
RECURSIVE ecb_encrypt_loop(_, _, _, _)
ecb_encrypt_loop(plaintext, k, i, res) ==
    IF i = Len(plaintext) \div BLOCK_LEN
    THEN Done(Ok(res), i)
    ELSE ecb_encrypt_loop(plaintext, k, i + 1,
                          res \o aes_128(Chunk(plaintext, i), k))

ecb_encrypt(plaintext, k) ==
    IF Len(plaintext) % BLOCK_LEN # 0
    THEN Done(Err("InvalidLength"), 0)
    ELSE ecb_encrypt_loop(plaintext, k, 0, <<>>)

RECURSIVE ecb_decrypt_loop(_, _, _, _)
ecb_decrypt_loop(ciphertext, k, i, res) ==
    IF i = Len(ciphertext) \div BLOCK_LEN
    THEN Done(Ok(res), i)
    ELSE ecb_decrypt_loop(ciphertext, k, i + 1,
                          res \o aes_inv_128(Chunk(ciphertext, i), k))

\* faulty variant: decrypt applies the forward transform
ecb_decrypt_forward(ciphertext, k) == ecb_encrypt(ciphertext, k)

ecb_decrypt(ciphertext, k) ==
    IF Len(ciphertext) % BLOCK_LEN # 0
    THEN Done(Err("InvalidLength"), 0)
    ELSE ecb_decrypt_loop(ciphertext, k, 0, <<>>)

(***************************************************************************)
(* CBC                                                                     *)
(***************************************************************************)
RECURSIVE cbc_encrypt_loop(_, _, _, _, _)
cbc_encrypt_loop(msg, k, v, i, res) ==
    IF i = Len(msg) \div BLOCK_LEN
    THEN Done(Ok(res), i)
    ELSE LET block == Chunk(msg, i)
             x == IF i = 0
                  THEN xor(block, v)
                  ELSE xor(block, Slice(res, BLOCK_LEN * (i - 1), BLOCK_LEN * i))
         IN  IF ~x.ok
             THEN Done(Err(x.err), i)
             ELSE cbc_encrypt_loop(msg, k, v, i + 1, res \o aes_128(x.val, k))

\* faulty variant: every block is chained with the IV
RECURSIVE cbc_encrypt_iv_loop(_, _, _, _, _)
cbc_encrypt_iv_loop(msg, k, v, i, res) ==
    IF i = Len(msg) \div BLOCK_LEN
    THEN Done(Ok(res), i)
    ELSE LET x == xor(Chunk(msg, i), v)
         IN  IF ~x.ok
             THEN Done(Err(x.err), i)
             ELSE cbc_encrypt_iv_loop(msg, k, v, i + 1, res \o aes_128(x.val, k))

cbc_encrypt_iv_only(msg, k, v) ==
    IF Len(msg) % BLOCK_LEN # 0
    THEN Done(Err("InvalidLength"), 0)
    ELSE cbc_encrypt_iv_loop(msg, k, v, 0, <<>>)

\* faulty variant: the whole blocks are enciphered before the length is checked
cbc_encrypt_late_check(msg, k, v) ==
    LET r == cbc_encrypt_loop(msg, k, v, 0, <<>>)
    IN  IF Len(msg) % BLOCK_LEN # 0
        THEN Done(Err("InvalidLength"), r.calls)
        ELSE r

\* faulty variant: every iteration enciphers the first block of the message
RECURSIVE cbc_encrypt_first_block_loop(_, _, _, _, _)
cbc_encrypt_first_block_loop(msg, k, v, i, res) ==
    IF i = Len(msg) \div BLOCK_LEN
    THEN Done(Ok(res), i)
    ELSE LET block == Chunk(msg, 0)
             x == IF i = 0
                  THEN xor(block, v)
                  ELSE xor(block, Slice(res, BLOCK_LEN * (i - 1), BLOCK_LEN * i))
         IN  cbc_encrypt_first_block_loop(msg, k, v, i + 1,
                                          res \o aes_128(x.val, k))

cbc_encrypt_first_block(msg, k, v) ==
    IF Len(msg) % BLOCK_LEN # 0
    THEN Done(Err("InvalidLength"), 0)
    ELSE cbc_encrypt_first_block_loop(msg, k, v, 0, <<>>)

cbc_encrypt(msg, k, v) ==
    IF Len(msg) % BLOCK_LEN # 0
    THEN Done(Err("InvalidLength"), 0)
    ELSE cbc_encrypt_loop(msg, k, v, 0, <<>>)

RECURSIVE cbc_decrypt_loop(_, _, _, _, _)
cbc_decrypt_loop(cipher, k, v, i, res) ==
    IF i = Len(cipher) \div BLOCK_LEN
    THEN Done(Ok(res), i)
    ELSE LET block == Chunk(cipher, i)
             x == IF i = 0
                  THEN xor(aes_inv_128(block, k), v)
                  ELSE xor(aes_inv_128(block, k),
                           Slice(cipher, BLOCK_LEN * (i - 1), BLOCK_LEN * i))
         IN  IF ~x.ok
             THEN Done(Err(x.err), i + 1)
             ELSE cbc_decrypt_loop(cipher, k, v, i + 1, res \o x.val)

\* faulty variant: the first block is XORed with the IV before the inverse transform
RECURSIVE cbc_decrypt_xor_first_loop(_, _, _, _, _)
cbc_decrypt_xor_first_loop(cipher, k, v, i, res) ==
    IF i = Len(cipher) \div BLOCK_LEN
    THEN Done(Ok(res), i)
    ELSE LET block == Chunk(cipher, i)
             x == IF i = 0
                  THEN Ok(aes_inv_128(xor(block, v).val, k))
                  ELSE xor(aes_inv_128(block, k),
                           Slice(cipher, BLOCK_LEN * (i - 1), BLOCK_LEN * i))
         IN  cbc_decrypt_xor_first_loop(cipher, k, v, i + 1, res \o x.val)

cbc_decrypt_xor_first(cipher, k, v) ==
    IF Len(cipher) % BLOCK_LEN # 0
    THEN Done(Err("InvalidLength"), 0)
    ELSE cbc_decrypt_xor_first_loop(cipher, k, v, 0, <<>>)

cbc_decrypt(cipher, k, v) ==
    IF Len(cipher) % BLOCK_LEN # 0
    THEN Done(Err("InvalidLength"), 0)
    ELSE cbc_decrypt_loop(cipher, k, v, 0, <<>>)

(***************************************************************************)
(* u64: four 16-bit words, least significant word first                    *)
(***************************************************************************)
WORD == 65536
U64_MAX == <<WORD - 1, WORD - 1, WORD - 1, WORD - 1>>

\* u64::to_be_bytes: most significant byte first
to_be_bytes(x) ==
    <<x[4] \div 256, x[4] % 256, x[3] \div 256, x[3] % 256,
      x[2] \div 256, x[2] % 256, x[1] \div 256, x[1] % 256>>

\* u64::to_le_bytes: least significant byte first
to_le_bytes(x) ==
    <<x[1] % 256, x[1] \div 256, x[2] % 256, x[2] \div 256,
      x[3] % 256, x[3] \div 256, x[4] % 256, x[4] \div 256>>

\* x + 1 modulo 2^64: the carry ripples through the words
wrapping_add_one(x) ==
    LET c1 == IF x[1] = WORD - 1 THEN 1 ELSE 0
        c2 == IF c1 = 1 /\ x[2] = WORD - 1 THEN 1 ELSE 0
        c3 == IF c2 = 1 /\ x[3] = WORD - 1 THEN 1 ELSE 0
    IN  <<(x[1] + 1) % WORD, (x[2] + c1) % WORD,
          (x[3] + c2) % WORD, (x[4] + c3) % WORD>>

(***************************************************************************)
(* CTR.  `*count += 1` on u64::MAX panics in a build with overflow checks  *)
(* (the debug profile) and wraps to 0 in a build without (the release      *)
(* profile); overflow_checks is the profile of the build.                  *)
(***************************************************************************)
\* a call's value, the counter it leaves in the caller's variable and the
\* number of block cipher invocations; ok is FALSE when the call panicked
CtrDone(ok, val, cnt, calls) ==
    [ok |-> ok, val |-> val, err |-> IF ok THEN "none" ELSE "panic",
     count |-> cnt, calls |-> calls]

\* writes the counter bytes into input[COUNT_LEN..] and enciphers the block
ctr_inner_cipher(input, k, cnt, md) ==
    LET count_bytes == IF md = "Big" THEN to_be_bytes(cnt) ELSE to_le_bytes(cnt)
        next_input == Slice(input, 0, COUNT_LEN) \o count_bytes
    IN  [input |-> next_input, stream |-> aes_128(next_input, k)]

\* the for loop over text.chunks(16), i the 0-based index of the chunk
RECURSIVE ctr_inner_loop(_, _, _, _, _, _, _)
ctr_inner_loop(text, k, cnt, md, input, i, res) ==
    IF BLOCK_LEN * i >= Len(text)
    THEN CtrDone(TRUE, res, cnt, i)
    ELSE LET last == IF BLOCK_LEN * (i + 1) < Len(text)
                     THEN BLOCK_LEN * (i + 1) ELSE Len(text)
             block == Slice(text, BLOCK_LEN * i, last)
             c == ctr_inner_cipher(input, k, cnt, md)
             output == xor(block, Slice(c.stream, 0, Len(block)))
         IN  IF ~output.ok
             THEN CtrDone(FALSE, <<>>, cnt, i + 1)
             ELSE IF cnt = U64_MAX /\ overflow_checks
             THEN CtrDone(FALSE, <<>>, cnt, i + 1)
             ELSE ctr_inner_loop(text, k, wrapping_add_one(cnt), md, c.input,
                                 i + 1, res \o output.val)

\* faulty variant: the counter advances once per call, after the loop
RECURSIVE ctr_inner_once_loop(_, _, _, _, _, _, _)
ctr_inner_once_loop(text, k, cnt, md, input, i, res) ==
    IF BLOCK_LEN * i >= Len(text)
    THEN IF i = 0 THEN CtrDone(TRUE, res, cnt, i)
         ELSE IF cnt = U64_MAX /\ overflow_checks
         THEN CtrDone(FALSE, <<>>, cnt, i)
         ELSE CtrDone(TRUE, res, wrapping_add_one(cnt), i)
    ELSE LET last == IF BLOCK_LEN * (i + 1) < Len(text)
                     THEN BLOCK_LEN * (i + 1) ELSE Len(text)
             block == Slice(text, BLOCK_LEN * i, last)
             c == ctr_inner_cipher(input, k, cnt, md)
             output == xor(block, Slice(c.stream, 0, Len(block)))
         IN  ctr_inner_once_loop(text, k, cnt, md, c.input, i + 1,
                                 res \o output.val)

ctr_inner_once(text, k, nc, cnt, md) ==
    LET nonce_bytes == IF md = "Big" THEN to_be_bytes(nc) ELSE to_le_bytes(nc)
        input == nonce_bytes \o Fill(0, BLOCK_LEN - NONCE_LEN)
    IN  ctr_inner_once_loop(text, k, cnt, md, input, 0, <<>>)

ctr_inner(text, k, nc, cnt, md) ==
    LET nonce_bytes == IF md = "Big" THEN to_be_bytes(nc) ELSE to_le_bytes(nc)
        input == nonce_bytes \o Fill(0, BLOCK_LEN - NONCE_LEN)
    IN  ctr_inner_loop(text, k, cnt, md, input, 0, <<>>)

ctr_encrypt(plaintext, k, nc, cnt, md) == ctr_inner(plaintext, k, nc, cnt, md)

ctr_decrypt(ciphertext, k, nc, cnt, md) == ctr_inner(ciphertext, k, nc, cnt, md)

get_block_count(len) ==
    (len \div BLOCK_LEN) + (IF len % BLOCK_LEN # 0 THEN 1 ELSE 0)

(***************************************************************************)
(* The caller's state.  hist is the sequence of library calls made so far, *)
(* orig the buffer the caller started with, prev the argument of the most  *)
(* recent call, data the buffer the caller holds now (the value of the     *)
(* most recent successful call), kept the value of an earlier call that    *)
(* the caller put aside and err the error of the most recent call.         *)
(***************************************************************************)
NoU64 == <<0, 0, 0, 0>>

\* the variables a scenario does not use
IdleCipher ==
    /\ key = <<>>
    /\ iv = <<>>
    /\ aes_calls = 0

IdleCtr ==
    /\ nonce = NoU64
    /\ mode = "Big"
    /\ count = NoU64
    /\ count_copy = NoU64
    /\ count0 = NoU64
    /\ overflow_checks = FALSE
    /\ pending = <<>>
    /\ chunks = 0

\* the caller stores the value of a call, or its error
Returned(name, arg, r) ==
    /\ hist' = Append(hist, name)
    /\ prev' = arg
    /\ data' = IF r.ok THEN r.val ELSE data
    /\ err' = r.err

(***************************************************************************)
(* PKCS#7 scenario: a buffer is padded and / or unpadded                   *)
(***************************************************************************)
\* values of the bytes before the trailing run
HeadBytes == {0, 3, 16, 200}
\* values of the bytes of the trailing run
TailBytes == 0..MaxTailByte

\* len bytes: a head of value a followed by a run of k bytes of value b
Runs(len, k, a, b) == [i \in 1..len |-> IF i <= len - k THEN a ELSE b]

PadInputs ==
    { Runs(len, k, a, b) : len \in 0..MaxPadLen,
                           k \in 0..MaxTail,
                           a \in HeadBytes,
                           b \in TailBytes }

InitPkcs7 ==
    /\ hist = <<>>
    /\ orig \in PadInputs
    /\ prev = <<>>
    /\ data = orig
    /\ kept = <<>>
    /\ err = "none"
    /\ IdleCipher
    /\ IdleCtr

Pad ==
    /\ hist = <<>>
    /\ Returned("pad", data, Ok(pad(data)))
    /\ UNCHANGED <<kept, orig, key, iv, nonce, mode, count, count_copy, count0,
                   overflow_checks, pending, chunks, aes_calls>>

Unpad ==
    /\ "unpad" \notin {hist[i] : i \in 1..Len(hist)}
    /\ Returned("unpad", data, unpad(data))
    /\ UNCHANGED <<kept, orig, key, iv, nonce, mode, count, count_copy, count0,
                   overflow_checks, pending, chunks, aes_calls>>

NextPkcs7 == Pad \/ Unpad

SpecPkcs7 == InitPkcs7 /\ [][NextPkcs7]_vars

(***************************************************************************)
(* Claims about pad / unpad                                                *)
(***************************************************************************)
\* unpad's length precondition
Unpaddable(buf) == Len(buf) >= 16 /\ Len(buf) % 16 = 0
\* the last 16 bytes of a buffer
TrailingBlock(buf) == [i \in 1..16 |-> buf[Len(buf) - 16 + i]]
\* the N in 1..15 for which the last N bytes of the block all equal N
PadMatches(block) == {n \in 1..15 : \A i \in (16 - n + 1)..16 : block[i] = n}
IsFullPadBlock(block) == \A i \in 1..16 : block[i] = 16
UnpadOnly == hist = <<"unpad">>
PadThenUnpad == hist = <<"pad", "unpad">>

\* C7: unpad of a buffer of one or more blocks whose trailing block is 16
\* copies of 16 succeeds and returns the buffer without that trailing block.
C7_FullBlockRemoved ==
    (UnpadOnly /\ Unpaddable(orig) /\ IsFullPadBlock(TrailingBlock(orig)))
        => (err = "none" /\ data = SubSeq(orig, 1, Len(orig) - 16))

\* C8: unpad(pad(buf)) succeeds and returns buf whenever len(buf) % 16 # 0.
C8_PadUnpadRoundTrip ==
    (PadThenUnpad /\ Len(orig) % 16 # 0) => (err = "none" /\ data = orig)

C8_Witness ==
    /\ PadThenUnpad
    /\ Len(orig) > 16
    /\ Len(orig) % 16 # 0
    /\ orig[Len(orig)] \in 1..16
    /\ err = "none"
    /\ data = orig

\* C9: when the trailing block is not 16 copies of 16 and its last N bytes
\* all equal N for some N in 1..15, unpad returns the buffer without its last
\* N bytes, and no second N matches the same trailing block.
C9_PaddingRemoved ==
    (UnpadOnly /\ Unpaddable(orig) /\ ~IsFullPadBlock(TrailingBlock(orig)))
        => /\ Cardinality(PadMatches(TrailingBlock(orig))) <= 1
           /\ \A n \in PadMatches(TrailingBlock(orig)) :
                  /\ err = "none"
                  /\ data = SubSeq(orig, 1, Len(orig) - n)

C9_Witness ==
    /\ UnpadOnly
    /\ Len(orig) = 32
    /\ PadMatches(TrailingBlock(orig)) = {3}
    /\ orig[29] = 3
    /\ err = "none"
    /\ Len(data) = 29

\* C10: when the trailing block matches no padding pattern, unpad returns
\* the buffer unchanged if no byte of the trailing block is in 1..15 and
\* fails with InvalidPadding otherwise, whatever the earlier blocks hold.
C10_NoPatternFallback ==
    (/\ UnpadOnly
     /\ Unpaddable(orig)
     /\ ~IsFullPadBlock(TrailingBlock(orig))
     /\ PadMatches(TrailingBlock(orig)) = {})
        => IF \A i \in 1..16 : TrailingBlock(orig)[i] \notin 1..15
           THEN err = "none" /\ data = orig
           ELSE err = "InvalidPadding"

C10_Witness ==
    /\ UnpadOnly
    /\ Len(orig) = 32
    /\ ~IsFullPadBlock(TrailingBlock(orig))
    /\ PadMatches(TrailingBlock(orig)) = {}
    /\ \E i \in 1..16 : TrailingBlock(orig)[i] \in 1..15
    /\ err = "InvalidPadding"

\* C11: pad returns buf followed by 16 - r bytes of value 16 - r when
\* r = len(buf) % 16 is not 0, and buf unchanged when r = 0 (the empty buffer
\* included); the result has buf as a prefix and a length multiple of 16.
C11_PadShape ==
    hist = <<"pad">>
        => LET r == Len(prev) % 16
           IN  /\ err = "none"
               /\ Len(data) % 16 = 0
               /\ Len(data) >= Len(prev)
               /\ SubSeq(data, 1, Len(prev)) = prev
               /\ r # 0 => /\ Len(data) = Len(prev) + (16 - r)
                           /\ \A i \in (Len(prev) + 1)..Len(data) : data[i] = 16 - r
               /\ r = 0 => data = prev

C11_Witness ==
    /\ hist = <<"pad">>
    /\ Len(prev) = 19
    /\ Len(data) = 32
    /\ data[20] = 13
    /\ data[32] = 13
    /\ SubSeq(data, 1, 19) = prev

\* no byte of the block has a value in 1..15
NoPadBytes(block) == \A i \in 1..16 : block[i] \notin 1..15

\* C16: for a non-empty buffer of whole blocks, unpad(pad(buf)) returns buf
\* exactly when its trailing block has no byte in 1..15 and is not 16 copies
\* of 16; otherwise it returns a strictly shorter buffer or fails with
\* InvalidPadding.  For the empty buffer pad returns the empty buffer and
\* unpad of it fails with InvalidLength.
C16_AlignedPadUnpad ==
    /\ (hist = <<"pad">> /\ orig = <<>>) => (err = "none" /\ data = <<>>)
    /\ (PadThenUnpad /\ orig = <<>>) => err = "InvalidLength"
    /\ (PadThenUnpad /\ orig # <<>> /\ Len(orig) % 16 = 0)
           => LET clean == /\ NoPadBytes(TrailingBlock(orig))
                           /\ ~IsFullPadBlock(TrailingBlock(orig))
              IN  /\ (err = "none" /\ data = orig) <=> clean
                  /\ ~clean => \/ err = "none" /\ Len(data) < Len(orig)
                               \/ err = "InvalidPadding"

C16_Witness ==
    /\ PadThenUnpad
    /\ Len(orig) = 32
    /\ ~NoPadBytes(TrailingBlock(orig))
    /\ err = "none"
    /\ Len(data) < 32
    /\ data = SubSeq(orig, 1, Len(data))

(***************************************************************************)
(* ECB / CBC scenario: a caller holding a message, a key and an IV makes   *)
(* up to two calls, each on the buffer the previous call returned          *)
(***************************************************************************)
\* message contents: seed 0 is the all-zero message (identical blocks)
Gen(seed, len) == [i \in 1..len |-> (seed * (i * i + 31 * i + 7)) % 256]
Messages == { Gen(seed, len) : seed \in 0..MaxSeed, len \in 0..MaxMsgLen }
Keys == { [i \in 1..KEY_LEN_128 |-> (m * (17 * i + 3)) % 256] : m \in {1, 5} }
\* the all-zero IV of the tests and a non-zero one
IVs == { [i \in 1..IV_LEN |-> (m * (i + 100)) % 256] : m \in {0, 3} }

InitBlock ==
    /\ hist = <<>>
    /\ orig \in Messages
    /\ prev = <<>>
    /\ data = orig
    /\ kept = <<>>
    /\ err = "none"
    /\ key \in Keys
    /\ iv \in IVs
    /\ aes_calls = 0
    /\ IdleCtr

BlockCall(name, r) ==
    /\ Len(hist) < 2
    /\ err = "none"
    /\ Returned(name, data, r)
    /\ aes_calls' = r.calls
    /\ UNCHANGED <<kept, orig, key, iv, nonce, mode, count, count_copy, count0,
                   overflow_checks, pending, chunks>>

EcbEncrypt == BlockCall("ecb_encrypt", ecb_encrypt(data, key))
EcbDecrypt == BlockCall("ecb_decrypt", ecb_decrypt(data, key))
CbcEncrypt == BlockCall("cbc_encrypt", cbc_encrypt(data, key, iv))
CbcDecrypt == BlockCall("cbc_decrypt", cbc_decrypt(data, key, iv))

NextBlock == EcbEncrypt \/ EcbDecrypt \/ CbcEncrypt \/ CbcDecrypt

SpecBlock == InitBlock /\ [][NextBlock]_vars

(***************************************************************************)
(* Claims about ECB and CBC                                                *)
(***************************************************************************)
LastCall == IF hist = <<>> THEN "none" ELSE hist[Len(hist)]
\* the i-th (0-based) 16-byte block of a buffer
BlockOf(buf, i) == [j \in 1..16 |-> buf[16 * i + j]]
XorBlocks(a, b) == [j \in 1..16 |-> XorByte(a[j], b[j])]

\* C1: cbc::decrypt of a ciphertext of whole blocks returns as many bytes,
\* block 0 being Decrypt(key, c[0]) XOR iv and block i > 0 being
\* Decrypt(key, c[i]) XOR c[i-1]: the inverse transform first, the XOR after.
C1_CbcDecryptRecurrence ==
    (LastCall = "cbc_decrypt" /\ Len(prev) % 16 = 0)
        => /\ err = "none"
           /\ Len(data) = Len(prev)
           /\ \A i \in 0..(Len(prev) \div 16 - 1) :
                  BlockOf(data, i) =
                      XorBlocks(aes_inv_128(BlockOf(prev, i), key),
                                IF i = 0 THEN iv ELSE BlockOf(prev, i - 1))

C1_Witness ==
    /\ hist = <<"cbc_decrypt">>
    /\ Len(prev) = 48
    /\ \E j \in 1..16 : iv[j] # 0
    /\ BlockOf(data, 0) = XorBlocks(aes_inv_128(BlockOf(prev, 0), key), iv)
    /\ BlockOf(data, 0) # aes_inv_128(XorBlocks(BlockOf(prev, 0), iv), key)

\* C2: cbc::encrypt of a message of whole blocks returns as many bytes,
\* block 0 being Encrypt(key, p[0] XOR iv) and block i > 0 being
\* Encrypt(key, p[i] XOR c[i-1]) with c[i-1] the block the call produced.
C2_CbcEncryptRecurrence ==
    (LastCall = "cbc_encrypt" /\ Len(prev) % 16 = 0)
        => /\ err = "none"
           /\ Len(data) = Len(prev)
           /\ \A i \in 0..(Len(prev) \div 16 - 1) :
                  BlockOf(data, i) =
                      aes_128(XorBlocks(BlockOf(prev, i),
                                        IF i = 0 THEN iv ELSE BlockOf(data, i - 1)),
                              key)

C2_Witness ==
    /\ hist = <<"cbc_encrypt">>
    /\ Len(prev) = 48
    /\ \E j \in 1..16 : iv[j] # 0
    /\ err = "none"
    /\ BlockOf(data, 2) = aes_128(XorBlocks(BlockOf(prev, 2), BlockOf(data, 1)), key)
    /\ BlockOf(data, 2) # aes_128(XorBlocks(BlockOf(prev, 2), iv), key)

\* C3: for a message of whole blocks (the empty one included), ecb::decrypt
\* of ecb::encrypt and cbc::decrypt of cbc::encrypt return the message, and
\* neither call fails.
C3_BlockRoundTrip ==
    Len(orig) % 16 = 0
        => /\ hist \in {<<"ecb_encrypt">>, <<"cbc_encrypt">>} => err = "none"
           /\ hist \in {<<"ecb_encrypt", "ecb_decrypt">>,
                        <<"cbc_encrypt", "cbc_decrypt">>}
                  => (err = "none" /\ data = orig)

C3_Witness ==
    /\ hist = <<"cbc_encrypt", "cbc_decrypt">>
    /\ Len(orig) = 32
    /\ \E j \in 1..16 : iv[j] # 0
    /\ prev # orig
    /\ err = "none"
    /\ data = orig

\* C12: the ECB and CBC calls on a buffer whose length is not a multiple
\* of 16 fail with InvalidLength before the block cipher is invoked: zero
\* invocations, and the caller gets no output.
C12_LengthCheckFirst ==
    (/\ LastCall \in {"ecb_encrypt", "ecb_decrypt", "cbc_encrypt", "cbc_decrypt"}
     /\ Len(prev) % 16 # 0)
        => /\ err = "InvalidLength"
           /\ aes_calls = 0
           /\ data = prev

C12_Witness ==
    /\ hist = <<"cbc_encrypt">>
    /\ Len(prev) = 33
    /\ err = "InvalidLength"
    /\ aes_calls = 0

(***************************************************************************)
(* CBC pair scenario: a caller encrypts a message, puts the ciphertext     *)
(* aside and encrypts a second message of the same length, held in         *)
(* pending, with the same key and IV.  The second message equals the first *)
(* up to a byte position p, differs at p and, when tail is set, after p.   *)
(***************************************************************************)
Vary(msg, p, tail) ==
    [j \in 1..Len(msg) |->
        IF j = p THEN (msg[j] + 1) % 256
        ELSE IF tail /\ j > p THEN (msg[j] + 7) % 256
        ELSE msg[j]]

WholeBlockMessages == { m \in Messages : Len(m) > 0 /\ Len(m) % BLOCK_LEN = 0 }

InitPair ==
    /\ hist = <<>>
    /\ orig \in WholeBlockMessages
    /\ \E p \in 1..Len(orig), tail \in BOOLEAN : pending = Vary(orig, p, tail)
    /\ prev = <<>>
    /\ data = orig
    /\ kept = <<>>
    /\ err = "none"
    /\ key \in Keys
    /\ iv \in IVs
    /\ aes_calls = 0
    /\ nonce = NoU64
    /\ mode = "Big"
    /\ count = NoU64
    /\ count_copy = NoU64
    /\ count0 = NoU64
    /\ overflow_checks = FALSE
    /\ chunks = 0

CbcEncryptFirst ==
    /\ hist = <<>>
    /\ CbcEncrypt

CbcEncryptOther ==
    /\ hist = <<"cbc_encrypt">>
    /\ err = "none"
    /\ \E r \in {cbc_encrypt(pending, key, iv)} :
        /\ kept' = data
        /\ Returned("cbc_encrypt", pending, r)
        /\ aes_calls' = r.calls
    /\ pending' = <<>>
    /\ UNCHANGED <<orig, key, iv, nonce, mode, count, count_copy, count0,
                   overflow_checks, chunks>>

NextPair == CbcEncryptFirst \/ CbcEncryptOther

SpecPair == InitPair /\ [][NextPair]_vars

\* the two messages and the two ciphertexts of a finished pair
PairDone == hist = <<"cbc_encrypt", "cbc_encrypt">> /\ Len(orig) = Len(prev)
\* the blocks in which the two messages differ
DifferingBlocks ==
    {b \in 0..(Len(orig) \div 16 - 1) : BlockOf(orig, b) # BlockOf(prev, b)}

\* C15: two cbc::encrypt calls with the same key and IV on equal-length
\* messages that agree in all blocks before block i and differ in block i
\* give ciphertexts that agree in every block before i and differ in block i.
C15_CbcPrefixDiffusion ==
    PairDone
        => /\ err = "none"
           /\ \A i \in DifferingBlocks :
                  (\A b \in DifferingBlocks : i <= b)
                      => /\ \A b \in 0..(i - 1) : BlockOf(kept, b) = BlockOf(data, b)
                         /\ BlockOf(kept, i) # BlockOf(data, i)

C15_Witness ==
    /\ PairDone
    /\ Len(orig) = 48
    /\ DifferingBlocks = {1}
    /\ err = "none"
    /\ BlockOf(kept, 0) = BlockOf(data, 0)
    /\ BlockOf(kept, 1) # BlockOf(data, 1)

(***************************************************************************)
(* CTR scenario: a caller encrypts a text in one or two consecutive parts, *)
(* threading the counter variable count through the calls, and then        *)
(* decrypts what it got with a second counter variable, count_copy, that   *)
(* starts at the same value.  data is the concatenation of the outputs,    *)
(* pending the part of the text not yet handed to a call and chunks the    *)
(* sum of get_block_count(len) over the calls that threaded count.         *)
(***************************************************************************)
Texts == { Gen(1, len) : len \in 0..MaxCtrLen }
CtrKey == [i \in 1..KEY_LEN_128 |-> (17 * i + 3) % 256]
\* the nonce f0f1f2f3f4f5f6f7 of the test vectors
Nonces == { <<63223, 62709, 62195, 61681>> }
\* 0, a value whose increment carries into the next word, the counter
\* f8f9fafbfcfdfeff of the test vectors, u64::MAX - 1 and u64::MAX
Counters ==
    { <<0, 0, 0, 0>>, <<WORD - 1, 0, 0, 0>>, <<65279, 64765, 64251, 63737>>,
      <<WORD - 2, WORD - 1, WORD - 1, WORD - 1>>, U64_MAX }

InitCtr ==
    /\ hist = <<>>
    /\ orig \in Texts
    /\ prev = <<>>
    /\ data = <<>>
    /\ kept = <<>>
    /\ err = "none"
    /\ key = CtrKey
    /\ iv = <<>>
    /\ aes_calls = 0
    /\ nonce \in Nonces
    /\ mode \in {"Big", "Little"}
    /\ count0 \in Counters
    /\ count = count0
    /\ count_copy = count0
    /\ overflow_checks \in BOOLEAN
    /\ pending = orig
    /\ chunks = 0

\* encrypt the next n bytes of the text with the threaded counter: any
\* prefix in the first call, the rest of the text in the second
CtrEncrypt ==
    /\ err = "none"
    /\ Len(hist) < 2
    /\ "ctr_decrypt" \notin {hist[i] : i \in 1..Len(hist)}
    /\ \E n \in (IF hist = <<>> THEN 0..Len(pending) ELSE {Len(pending)}) :
       \E r \in {ctr_encrypt(SubSeq(pending, 1, n), key, nonce, count, mode)} :
            /\ hist' = Append(hist, "ctr_encrypt")
            /\ prev' = SubSeq(pending, 1, n)
            /\ pending' = SubSeq(pending, n + 1, Len(pending))
            /\ data' = IF r.ok THEN data \o r.val ELSE data
            /\ err' = r.err
            /\ count' = r.count
            /\ chunks' = chunks + get_block_count(n)
            /\ aes_calls' = r.calls
            /\ UNCHANGED <<kept, orig, key, iv, nonce, mode, count_copy, count0,
                           overflow_checks>>

\* decrypt the whole ciphertext with the fresh counter variable
CtrDecrypt ==
    /\ err = "none"
    /\ hist # <<>>
    /\ pending = <<>>
    /\ "ctr_decrypt" \notin {hist[i] : i \in 1..Len(hist)}
    /\ \E r \in {ctr_decrypt(data, key, nonce, count_copy, mode)} :
        /\ hist' = Append(hist, "ctr_decrypt")
        /\ prev' = data
        /\ data' = IF r.ok THEN r.val ELSE data
        /\ err' = r.err
        /\ count_copy' = r.count
        /\ aes_calls' = r.calls
        /\ UNCHANGED <<kept, orig, key, iv, nonce, mode, count, count0,
                       overflow_checks, pending, chunks>>

NextCtr == CtrEncrypt \/ CtrDecrypt

SpecCtr == InitCtr /\ [][NextCtr]_vars

(***************************************************************************)
(* Claims about CTR                                                        *)
(***************************************************************************)
\* a - b as an integer, exact when |a - b| < 16384 and clamped otherwise
Clamp(d) == IF d > 16384 THEN 16384 ELSE IF d < -16384 THEN -16384 ELSE d
U64Diff(a, b) ==
    LET d4 == Clamp(a[4] - b[4])
        d3 == Clamp(d4 * WORD + a[3] - b[3])
        d2 == Clamp(d3 * WORD + a[2] - b[2])
    IN  Clamp(d2 * WORD + a[1] - b[1])

\* the single call on the whole text from the initial counter
WholeCall == ctr_encrypt(orig, key, nonce, count0, mode)

\* C4: ctr::decrypt of ctr::encrypt(msg) with a fresh counter variable that
\* starts at the same value returns msg, for every initial counter value and
\* every length of msg.
C4_CtrRoundTrip ==
    /\ (hist = <<"ctr_encrypt">> /\ prev = orig) => err = "none"
    /\ hist = <<"ctr_encrypt", "ctr_decrypt">> => (err = "none" /\ data = orig)

\* C5: after any sequence of calls threading one counter variable, the
\* counter is its initial value plus the sum of ceil(len(text) / 16).
C5_CounterAdvance ==
    /\ err = "none"
    /\ U64Diff(count, count0) = chunks
    /\ LastCall = "ctr_decrypt"
           => U64Diff(count_copy, count0) = get_block_count(Len(prev))

\* C6 as stated: for every split of the text into two consecutive parts,
\* the two calls give the output and the final counter of the single call.
C6_AnySplit ==
    (hist = <<"ctr_encrypt", "ctr_encrypt">> /\ pending = <<>> /\ err = "none")
        => /\ WholeCall.ok
           /\ data = WholeCall.val
           /\ count = WholeCall.count

\* C6 as amended: for every split position that is a multiple of 16, the two
\* calls give the output and the final counter of the single call, and they
\* fault (counter overflow in a build with overflow checks) exactly when the
\* single call does.
C6_AlignedSplit ==
    /\ (hist = <<"ctr_encrypt">> /\ Len(prev) % 16 = 0 /\ err = "panic")
           => ~WholeCall.ok
    /\ (/\ hist = <<"ctr_encrypt", "ctr_encrypt">>
        /\ pending = <<>>
        /\ (Len(orig) - Len(prev)) % 16 = 0)
           => /\ (err = "none") <=> WholeCall.ok
              /\ err = "none" => (data = WholeCall.val /\ count = WholeCall.count)

C6_Witness ==
    /\ hist = <<"ctr_encrypt", "ctr_encrypt">>
    /\ pending = <<>>
    /\ Len(orig) = 33
    /\ Len(prev) = 17
    /\ err = "none"
    /\ data = WholeCall.val
    /\ count = WholeCall.count

\* C13: no ctr::encrypt / ctr::decrypt call faults, whatever the initial
\* counter and the length of the text, also when the counter passes the
\* largest 64-bit value.
C13_NoFault == hist # <<>> => err = "none"

\* the p-th byte (0 the least significant) of a u64
ByteOf(x, p) ==
    IF p % 2 = 0 THEN x[p \div 2 + 1] % 256 ELSE x[p \div 2 + 1] \div 256
\* the 8 bytes of a u64 in the endianness of the call
Serialized(x, md) ==
    [i \in 1..8 |-> IF md = "Big" THEN ByteOf(x, 8 - i) ELSE ByteOf(x, i - 1)]
\* c + j modulo 2^64 for a small j
U64Plus(c, j) ==
    LET s1 == c[1] + j
        s2 == c[2] + s1 \div WORD
        s3 == c[3] + s2 \div WORD
        s4 == c[4] + s3 \div WORD
    IN  <<s1 % WORD, s2 % WORD, s3 % WORD, s4 % WORD>>
\* the keystream block of chunk j of a call that starts at the counter c
Keystream(c, j) ==
    aes_128(Serialized(nonce, mode) \o Serialized(U64Plus(c, j), mode), key)
\* data holds the output of one call that started at the counter count0
OneCallFromCount0 == hist = <<"ctr_encrypt">> \/ LastCall = "ctr_decrypt"
\* byte by byte: chunk j of the output is chunk j of the text XOR the first
\* bytes of the keystream block of c + j
KeystreamApplied ==
    /\ Len(data) = Len(prev)
    /\ \A q \in 1..Len(prev) :
           data[q] = XorByte(prev[q],
                             Keystream(count0, (q - 1) \div 16)[((q - 1) % 16) + 1])

\* C14: every call outputs, for each chunk j, the chunk XOR the first
\* len(chunk) bytes of Encrypt(key, nonce bytes || bytes of c + j), both in
\* the endianness of the call, and as many bytes as the text has.
C14_KeystreamLayout ==
    OneCallFromCount0 => (err = "none" /\ KeystreamApplied)

\* what holds of the calls that do not fault
C14_LayoutWhenReturned ==
    (OneCallFromCount0 /\ err = "none") => KeystreamApplied

====
